---- MODULE Spec2Model ----
(***************************************************************************)
(* The incremental backup engine of src/backup.py: the registry of         *)
(* MetaEntry records (Metadata._entries), the persisted state file         *)
(* .meta.json, the zip archives beside it, and the backed-up directories.  *)
(*                                                                         *)
(* One invocation of the tool is Start (Metadata.__init__ plus the         *)
(* dispatch of __main__), then one step per item of the argument list      *)
(* (one iteration of the for loop of backup, restore or rm), then Finish   *)
(* (the code after the loop and the normal exit).  An uncaught exception   *)
(* inside an iteration ends the invocation at once with exit status 1.     *)
(* Between steps the environment may let the wall clock advance, write or  *)
(* re-date files of the backed-up directories, and delete archive files.   *)
(*                                                                         *)
(* Timestamps and modification times are whole clock readings: time.time() *)
(* is non-decreasing here and two readings may be equal (the resolution of *)
(* the clock is that of the platform).                                     *)
(*                                                                         *)
(* Spec is the tool used by one invocation at a time, its backup directory *)
(* outside the backed-up directories.  SpecChain, SpecLoad, SpecClean,     *)
(* SpecConc, SpecRace and SpecNested look at one part each: the chain      *)
(* resolution, the load of any state file, runs without I/O failure, two   *)
(* invocations at once, the inside of one backup iteration, and a backup   *)
(* directory that lies inside a backed-up directory.                       *)
(***************************************************************************)
EXTENDS Integers, Sequences, FiniteSets, TLC

\* ---------------------------------------------------------------- bounds
MaxTime == 3
MaxRuns == 3
MaxEnvOps == 2
MaxBatch == 2
MaxContent == 2

\* ------------------------------------------------------ program constants
\* hex(hash(self))[2:10]: at most IdLen hexadecimal digits
IdLen == 8
HexBase == 16

\* Backed-up directories as <<parent, final component>>; two of them share
\* their final component.
Dirs == { <<"/a", "foo">>, <<"/b", "foo">> }
RelPaths == { "a.txt", "b.txt" }
Times == 1..MaxTime

NoFile == [exists |-> FALSE, mtime |-> 0, content |-> 0]
NoExit == -1

VARIABLES
  clock,      \* the wall clock: what time.time() returns
  files,      \* files[d][f]: the regular file at relative path f under d
  archives,   \* archive name -> (relative path -> content): the zip files
  stateFile,  \* .meta.json: [exists, parses, data]
  entries,    \* Metadata._entries of the running (or last) invocation
  pc,         \* "idle" | "running"
  cmd,        \* args.command of the invocation
  todo,       \* how many items of the argument list are not yet processed
  rmAll,      \* args.rm_all
  exit,       \* exit status of the last finished invocation
  notFound,   \* whether the invocation logged "backup id not found"
  op,         \* the last step taken: [kind, arg, outcome]
  lastCreate, \* the directory of the last backup iteration, while nothing
              \* but the clock has changed since
  runs,       \* invocations started
  envOps,     \* environment steps taken
  conc,       \* SpecConc: the invocations running at once, each with its own
              \* Metadata._entries
  scan,       \* SpecRace: where the backup iteration is, and what it holds
  metaMtime   \* SpecNested: the modification time of .meta.json

vars == << clock, files, archives, stateFile, entries, pc, cmd, todo, rmAll,
           exit, notFound, op, lastCreate, runs, envOps, conc, scan,
           metaMtime >>

\* what one specification leaves to the others
aside == << conc, scan, metaMtime >>

NoDir == << "", "" >>

\* ------------------------------------------------------------- MetaEntry

\* Path.stem of a directory path: its final component
Stem(d) == d[2]

\* str(entry): "<stem>_<timestamp>", the archive's file name without ".zip"
ArchiveName(e) == << Stem(e.path), e.timestamp >>

RECURSIVE HexDigits(_)
\* hex(n) without its "0x" prefix, as a sequence of digits
HexDigits(n) ==
  IF n < HexBase THEN << n >> ELSE Append(HexDigits(n \div HexBase), n % HexBase)

\* MetaEntry.__hash__: abs(hash(self._timestamp)); the hash of a whole,
\* non-negative float below the hash modulus is its value
Hash(ts) == IF ts < 0 THEN -ts ELSE ts

\* MetaEntry.id_: hex(hash(self))[2:10]
IdOf(e) ==
  LET h == HexDigits(Hash(e.timestamp))
  IN  SubSeq(h, 1, IF Len(h) < IdLen THEN Len(h) ELSE IdLen)

\* The ids a user can type: those of every possible timestamp, and one
\* (that of 0) no entry has.
Ids == { HexDigits(t) : t \in 0..MaxTime }

\* ------------------------------------------------------------- .meta.json

\* the keys MetaEntry.__init__ reads from a record of the state file
Fields == { "path", "timestamp", "file_count" }

\* str(self._path): the components of the path with the separator between
PathStr(d) == << d[1], "/", d[2] >>

\* Path(data["path"]): the text split at its last separator
ParsePath(s) == << s[1], s[3] >>

RECURSIVE DecDigits(_)
\* the decimal text json.dump writes for a number
DecDigits(n) ==
  IF n < 10 THEN << n >> ELSE Append(DecDigits(n \div 10), n % 10)

RECURSIVE ParseDec(_)
\* the number json.load reads from a decimal text
ParseDec(s) ==
  IF s = << >> THEN 0
  ELSE 10 * ParseDec(SubSeq(s, 1, Len(s) - 1)) + s[Len(s)]

\* MetaEntry.to_dict
ToDict(e) == [path |-> PathStr(e.path), timestamp |-> e.timestamp,
              file_count |-> e.file_count]

\* json.dump of one record: its text
DumpRecord(r) == [path |-> r.path, timestamp |-> DecDigits(r.timestamp),
                  file_count |-> DecDigits(r.file_count)]

\* json.load of one record, with whatever keys the text has
LoadRecord(t) ==
  [k \in DOMAIN t |-> IF k = "path" THEN t[k] ELSE ParseDec(t[k])]

\* MetaEntry.__init__ on a loaded record
MetaEntry(data) == [path |-> ParsePath(data.path), timestamp |-> data.timestamp,
                    file_count |-> data.file_count]

RECURSIVE DumpAll(_)
\* [meta_entry.to_dict() for meta_entry in self._entries], dumped
DumpAll(es) ==
  IF es = << >> THEN << >>
  ELSE << DumpRecord(ToDict(Head(es))) >> \o DumpAll(Tail(es))

\* Metadata._to_json: the file is rewritten whole
ToJson(es) == [exists |-> TRUE, parses |-> TRUE, data |-> DumpAll(es)]

\* no state file, and the one Metadata.__init__ then writes: "[]"
NoStateFile == [exists |-> FALSE, parses |-> FALSE, data |-> << >>]
EmptyStateFile == [exists |-> TRUE, parses |-> TRUE, data |-> << >>]

\* Metadata.__init__ gets through the file: json.load accepts the text and
\* every record has the keys MetaEntry.__init__ reads (no JSONDecodeError,
\* no KeyError)
LoadOk(sf) ==
  /\ sf.parses
  /\ \A i \in DOMAIN sf.data : Fields \subseteq DOMAIN sf.data[i]

RECURSIVE LoadAllReversed(_)
\* a load that builds the registry back to front
LoadAllReversed(recs) ==
  IF recs = << >> THEN << >>
  ELSE Append(LoadAllReversed(Tail(recs)), MetaEntry(LoadRecord(Head(recs))))

RECURSIVE LoadAll(_)
\* for entry in entries: self._entries.append(MetaEntry(entry))
LoadAll(recs) ==
  IF recs = << >> THEN << >>
  ELSE << MetaEntry(LoadRecord(Head(recs))) >> \o LoadAll(Tail(recs))

\* a load that starts every invocation from an empty registry
LoadedNone(sf) == << >>

\* the registry Metadata.__init__ builds from the state file
Loaded(sf) == LoadAll(sf.data)

\* ------------------------------------------------------------- chains

RECURSIVE SelectPath(_, _)
\* filter(lambda x: x._path == bak_dir, self._entries)
SelectPath(es, d) ==
  IF es = << >> THEN << >>
  ELSE IF Head(es).path = d THEN << Head(es) >> \o SelectPath(Tail(es), d)
       ELSE SelectPath(Tail(es), d)

RECURSIVE InsertByTsStrict(_, _)
\* an insertion that puts e before the elements equal to it
InsertByTsStrict(s, e) ==
  IF s = << >> THEN << e >>
  ELSE IF Head(s).timestamp < e.timestamp
       THEN << Head(s) >> \o InsertByTsStrict(Tail(s), e)
       ELSE << e >> \o s

RECURSIVE InsertByTs(_, _)
\* one insertion of a stable sort: e goes after every element not greater
InsertByTs(s, e) ==
  IF s = << >> THEN << e >>
  ELSE IF Head(s).timestamp <= e.timestamp
       THEN << Head(s) >> \o InsertByTs(Tail(s), e)
       ELSE << e >> \o s

RECURSIVE SortByTs(_)
\* sorted(..., key=timestamp): stable
SortByTs(s) ==
  IF s = << >> THEN << >>
  ELSE InsertByTs(SortByTs(SubSeq(s, 1, Len(s) - 1)), s[Len(s)])

\* Metadata._get_backup_chain
GetBackupChain(es, d) == SortByTs(SelectPath(es, d))

\* Metadata._get_last_backup_ts
GetLastBackupTs(es, d) ==
  LET chain == GetBackupChain(es, d)
  IN  IF chain # << >> THEN chain[Len(chain)].timestamp ELSE 0

\* Metadata._get_all_file_paths
GetAllFilePaths(fs, d) == { f \in RelPaths : fs[d][f].exists }

\* a filter that also keeps a file modified exactly at the last backup time
FilterUpdatedPathsGe(es, fs, d) ==
  { f \in GetAllFilePaths(fs, d) : fs[d][f].mtime >= GetLastBackupTs(es, d) }

\* Metadata._filter_updated_paths
FilterUpdatedPaths(es, fs, d) ==
  { f \in GetAllFilePaths(fs, d) : fs[d][f].mtime > GetLastBackupTs(es, d) }

\* Metadata._create_meta_entry
CreateMetaEntry(d, now, n) == [path |-> d, timestamp |-> now, file_count |-> n]

\* Metadata._compress on success: the members written
Compress(fs, d, sel) == [f \in sel |-> fs[d][f].content]


\* ------------------------------------------------------------- archives

\* the archive directory without the file named n (Path.unlink)
Unlink(arch, n) == [m \in DOMAIN arch \ {n} |-> arch[m]]

\* the archive directory with the file named n (re)written
WriteArchive(arch, n, members) ==
  [m \in DOMAIN arch \cup {n} |-> IF m = n THEN members ELSE arch[m]]

\* an extraction that leaves in the directory only what the archive holds
ExtractMirror(fs, members, d, now) ==
  [fs EXCEPT ![d] =
     [f \in RelPaths |->
        IF f \in DOMAIN members
        THEN [exists |-> TRUE, mtime |-> now, content |-> members[f]]
        ELSE NoFile]]

\* zipf.extractall(entry._path): every member is written, at the current
\* time, over what is at its relative path; nothing else is touched
ExtractMembers(fs, members, d, now) ==
  [fs EXCEPT ![d] =
     [f \in RelPaths |->
        IF f \in DOMAIN members
        THEN [exists |-> TRUE, mtime |-> now, content |-> members[f]]
        ELSE fs[d][f]]]

RECURSIVE ExtractChain(_, _, _, _)
\* for entry in bak_chain: self._extract(entry); opening a missing archive
\* raises FileNotFoundError and leaves what was extracted before it
ExtractChain(fs, arch, chain, now) ==
  IF chain = << >> THEN [files |-> fs, ok |-> TRUE]
  ELSE LET e == Head(chain)
       IN  IF ArchiveName(e) \notin DOMAIN arch
           THEN [files |-> fs, ok |-> FALSE]
           ELSE ExtractChain(
                  ExtractMembers(fs, arch[ArchiveName(e)], e.path, now),
                  arch, Tail(chain), now)

RECURSIVE GetBakMeta(_, _)
\* Metadata._get_bak_meta: (path, timestamp) of the first entry with the id,
\* the empty tuple for None
GetBakMeta(es, id) ==
  IF es = << >> THEN << >>
  ELSE IF IdOf(Head(es)) = id THEN << Head(es).path, Head(es).timestamp >>
       ELSE GetBakMeta(Tail(es), id)

RECURSIVE FindLastFrom(_, _, _)
FindLastFrom(es, id, i) ==
  IF i < 1 THEN 0
  ELSE IF IdOf(es[i]) = id THEN i ELSE FindLastFrom(es, id, i - 1)

\* an index search that returns the last entry with the id
FindLastIndexById(es, id) == FindLastFrom(es, id, Len(es))

RECURSIVE FindFrom(_, _, _)
FindFrom(es, id, i) ==
  IF i > Len(es) THEN 0
  ELSE IF IdOf(es[i]) = id THEN i ELSE FindFrom(es, id, i + 1)

\* Metadata._find_index_by_id: the first index (from 1) with the id, 0 for None
FindIndexById(es, id) == FindFrom(es, id, 1)

\* a restore that replays the whole chain, whatever the target's time
RestoreWholeChain(es, meta) == GetBackupChain(es, meta[1])

\* the prefix of the chain restore extracts
RestoreChain(es, meta) ==
  SelectSeq(GetBackupChain(es, meta[1]), LAMBDA x : x.timestamp <= meta[2])

RECURSIVE UnlinkChain(_, _, _)
\* rm --all: for entry in self._entries: if entry._path == bak_dir: unlink();
\* a missing archive raises FileNotFoundError out of the loop
UnlinkChain(arch, es, d) ==
  IF es = << >> THEN [archives |-> arch, ok |-> TRUE]
  ELSE IF Head(es).path # d THEN UnlinkChain(arch, Tail(es), d)
       ELSE IF ArchiveName(Head(es)) \notin DOMAIN arch
            THEN [archives |-> arch, ok |-> FALSE]
            ELSE UnlinkChain(Unlink(arch, ArchiveName(Head(es))), Tail(es), d)

\* [entry for entry in self._entries if entry._path != bak_dir]
DropPath(es, d) == SelectSeq(es, LAMBDA x : x.path # d)

\* del self._entries[entry_index]
DeleteAt(es, i) == SubSeq(es, 1, i - 1) \o SubSeq(es, i + 1, Len(es))

\* ------------------------------------------------------------- Init

\* the two invocations SpecConc runs side by side
Procs == { 1, 2 }

\* nothing runs beside the one invocation
NoConc == [pc |-> [p \in Procs |-> "idle"], cmd |-> [p \in Procs |-> "none"],
           all |-> [p \in Procs |-> FALSE], mem |-> [p \in Procs |-> << >>],
           expected |-> << >>, overlap |-> FALSE]

\* no backup iteration is under way
NoScan == [phase |-> "idle", dir |-> NoDir, sel |-> {}, ts |-> 0, since |-> {}]

Init ==
  /\ clock = 1
  /\ files = [d \in Dirs |-> [f \in RelPaths |-> NoFile]]
  /\ archives = << >>
  /\ stateFile = NoStateFile
  /\ entries = << >>
  /\ pc = "idle"
  /\ cmd = "none"
  /\ todo = 0
  /\ rmAll = FALSE
  /\ exit = NoExit
  /\ notFound = FALSE
  /\ op = [kind |-> "init", arg |-> "-", outcome |-> "ok"]
  /\ lastCreate = NoDir
  /\ runs = 0
  /\ envOps = 0
  /\ conc = NoConc
  /\ scan = NoScan
  /\ metaMtime = 0

\* ------------------------------------------------------------- invocation

\* an uncaught exception: the traceback is printed and the process exits 1
Raise == /\ pc' = "idle"
         /\ exit' = 1
         /\ UNCHANGED << cmd, todo, rmAll >>

\* the loop goes on to the next item
Continue == /\ todo' = todo - 1
            /\ UNCHANGED << pc, cmd, rmAll, exit >>

\* an unknown id that ends the invocation like an uncaught exception
SkipUnknownRaises == /\ notFound' = TRUE
                     /\ Raise

\* an id that matches no entry: logging.error("... not found, skipping") and
\* the loop goes on
SkipUnknown == /\ notFound' = TRUE
               /\ Continue

\* __main__: Metadata(output_dir), which loads .meta.json or creates it
\* holding "[]", then the dispatch on args.command with n items in the
\* argument list.  A state file json.load rejects, or a record without a key
\* MetaEntry.__init__ reads, raises out of the constructor: no Metadata
\* object, no dispatch, and nothing written.  The loops read the list one
\* item at a time and never look ahead, so each item is drawn when its
\* iteration runs.
Start(c, n, all) ==
  /\ pc = "idle"
  /\ runs < MaxRuns
  /\ runs' = runs + 1
  /\ cmd' = c
  /\ todo' = n
  /\ rmAll' = all
  /\ notFound' = FALSE
  /\ IF ~stateFile.exists
     THEN /\ entries' = << >>
          /\ stateFile' = EmptyStateFile
          /\ pc' = "running"
          /\ exit' = NoExit
          /\ op' = [kind |-> "start", arg |-> c, outcome |-> "ok"]
     ELSE IF LoadOk(stateFile)
     THEN /\ entries' = Loaded(stateFile)
          /\ stateFile' = stateFile
          /\ pc' = "running"
          /\ exit' = NoExit
          /\ op' = [kind |-> "start", arg |-> c, outcome |-> "ok"]
     ELSE /\ entries' = << >>
          /\ stateFile' = stateFile
          /\ pc' = "idle"
          /\ exit' = 1
          /\ op' = [kind |-> "start", arg |-> c, outcome |-> "loaderror"]
  /\ UNCHANGED << clock, files, archives, lastCreate, envOps >>
  /\ UNCHANGED aside

StartCreate == \E n \in 1..MaxBatch : Start("create", n, FALSE)
StartRestore == \E n \in 1..MaxBatch : Start("restore", n, FALSE)
StartRm == \E n \in 1..MaxBatch, all \in BOOLEAN : Start("rm", n, all)
StartList == Start("list", 0, FALSE)

\* a backup that makes an entry for every directory, changed or not
HasFilesAlways(sel) == TRUE

\* if files: an empty selection makes no entry
HasFiles(sel) == sel # {}

\* One iteration of Metadata.backup.  bad is the file zipf.write cannot read
\* (NoBad: none); part is what was written to the archive before it.
NoBad == "-"
BackupStep ==
  /\ pc = "running" /\ cmd = "create" /\ todo > 0
  /\ \E d \in Dirs :
     LET sel == FilterUpdatedPaths(entries, files, d)
     IN  IF ~HasFiles(sel)
         THEN /\ op' = [kind |-> "create", arg |-> d, outcome |-> "skip"]
              /\ lastCreate' = d
              /\ Continue
              /\ UNCHANGED << archives, entries, stateFile >>
         ELSE \E bad \in RelPaths \cup {NoBad} :
              LET me == CreateMetaEntry(d, clock, Cardinality(sel))
              IN  IF bad \in sel
                  THEN \E part \in SUBSET (sel \ {bad}) :
                       /\ archives' = WriteArchive(archives, ArchiveName(me),
                                                   Compress(files, d, part))
                       /\ op' = [kind |-> "create", arg |-> d,
                                 outcome |-> "ioerror"]
                       /\ lastCreate' = NoDir
                       /\ Raise
                       /\ UNCHANGED << entries, stateFile >>
                  ELSE /\ archives' = WriteArchive(archives, ArchiveName(me),
                                                   Compress(files, d, sel))
                       /\ entries' = Append(entries, me)
                       /\ stateFile' = ToJson(entries')
                       /\ op' = [kind |-> "create", arg |-> d, outcome |-> "ok"]
                       /\ lastCreate' = d
                       /\ Continue
  /\ UNCHANGED << clock, files, notFound, runs, envOps >>
  /\ UNCHANGED aside

\* One iteration of Metadata.restore
RestoreStep ==
  /\ pc = "running" /\ cmd = "restore" /\ todo > 0
  /\ \E id \in Ids :
     LET meta == GetBakMeta(entries, id)
     IN  IF meta = << >>
         THEN /\ op' = [kind |-> "restore", arg |-> id, outcome |-> "notfound"]
              /\ SkipUnknown
              /\ UNCHANGED files
         ELSE LET r == ExtractChain(files, archives,
                                    RestoreChain(entries, meta), clock)
              IN  /\ files' = r.files
                  /\ UNCHANGED notFound
                  /\ IF r.ok
                     THEN /\ op' = [kind |-> "restore", arg |-> id,
                                    outcome |-> "ok"]
                          /\ Continue
                     ELSE /\ op' = [kind |-> "restore", arg |-> id,
                                    outcome |-> "ioerror"]
                          /\ Raise
  /\ lastCreate' = NoDir
  /\ UNCHANGED << clock, archives, stateFile, entries, runs, envOps >>
  /\ UNCHANGED aside

\* One iteration of Metadata.rm
RmStep ==
  /\ pc = "running" /\ cmd = "rm" /\ todo > 0
  /\ \E id \in Ids :
         IF rmAll
         THEN LET meta == GetBakMeta(entries, id)
              IN  IF meta = << >>
                  THEN /\ op' = [kind |-> "rm", arg |-> id,
                                 outcome |-> "notfound"]
                       /\ SkipUnknown
                       /\ UNCHANGED << archives, entries >>
                  ELSE LET r == UnlinkChain(archives, entries, meta[1])
                       IN  /\ archives' = r.archives
                           /\ UNCHANGED notFound
                           /\ IF r.ok
                              THEN /\ entries' = DropPath(entries, meta[1])
                                   /\ op' = [kind |-> "rm", arg |-> id,
                                             outcome |-> "ok"]
                                   /\ Continue
                              ELSE /\ op' = [kind |-> "rm", arg |-> id,
                                             outcome |-> "ioerror"]
                                   /\ Raise
                                   /\ UNCHANGED entries
         ELSE LET i == FindIndexById(entries, id)
              IN  IF i = 0
                  THEN /\ op' = [kind |-> "rm", arg |-> id,
                                 outcome |-> "notfound"]
                       /\ SkipUnknown
                       /\ UNCHANGED << archives, entries >>
                  ELSE /\ archives' = Unlink(archives, ArchiveName(entries[i]))
                       /\ entries' = DeleteAt(entries, i)
                       /\ op' = [kind |-> "rm", arg |-> id,
                                 outcome |-> IF ArchiveName(entries[i])
                                                  \in DOMAIN archives
                                             THEN "ok" ELSE "missing"]
                       /\ Continue
                       /\ UNCHANGED notFound
  /\ lastCreate' = NoDir
  /\ UNCHANGED << clock, files, stateFile, runs, envOps >>
  /\ UNCHANGED aside

\* The loop is over: rm ends with self._to_json(); list prints the table;
\* the process ends normally, with exit status 0
Finish ==
  /\ pc = "running" /\ todo = 0
  /\ stateFile' = IF cmd = "rm" THEN ToJson(entries) ELSE stateFile
  /\ pc' = "idle"
  /\ exit' = 0
  /\ op' = [kind |-> "finish", arg |-> cmd, outcome |-> "ok"]
  /\ UNCHANGED << clock, files, archives, entries, cmd, todo, rmAll, notFound,
                  lastCreate, runs, envOps >>
  /\ UNCHANGED aside

\* ------------------------------------------------------------- environment

Env == /\ envOps < MaxEnvOps
       /\ envOps' = envOps + 1
       /\ UNCHANGED << stateFile, entries, pc, cmd, todo, rmAll, exit,
                       notFound, runs >>
       /\ UNCHANGED aside

\* the wall clock advances
Tick ==
  /\ clock < MaxTime
  /\ clock' = clock + 1
  /\ op' = [kind |-> "tick", arg |-> "-", outcome |-> "ok"]
  /\ UNCHANGED << files, archives, stateFile, entries, pc, cmd, todo, rmAll,
                  exit, notFound, lastCreate, runs, envOps >>
  /\ UNCHANGED aside

\* what a write leaves in a file differs from what was there
NewContent(c) == (c % MaxContent) + 1

\* a file of a backed-up directory is created or rewritten: its modification
\* time is the wall clock
WriteFile ==
  \E d \in Dirs, f \in RelPaths :
    /\ Env
    /\ files' = [files EXCEPT ![d][f] =
                   [exists |-> TRUE, mtime |-> clock,
                    content |-> NewContent(files[d][f].content)]]
    /\ op' = [kind |-> "write", arg |-> "-", outcome |-> "ok"]
    /\ lastCreate' = NoDir
    /\ UNCHANGED << clock, archives >>

\* os.utime, touch -d, cp -p, tar x: a file's modification time is set to
\* any time, past or future
Utime ==
  \E d \in Dirs, f \in RelPaths, t \in Times :
    /\ files[d][f].exists
    /\ files[d][f].mtime # t
    /\ Env
    /\ files' = [files EXCEPT ![d][f].mtime = t]
    /\ op' = [kind |-> "utime", arg |-> "-", outcome |-> "ok"]
    /\ lastCreate' = NoDir
    /\ UNCHANGED << clock, archives >>

\* an archive file is deleted from the backup directory by something else
DeleteArchive ==
  \E n \in DOMAIN archives :
    /\ Env
    /\ archives' = Unlink(archives, n)
    /\ op' = [kind |-> "delarchive", arg |-> "-", outcome |-> "ok"]
    /\ lastCreate' = NoDir
    /\ UNCHANGED << clock, files >>

Next ==
  \/ StartCreate \/ StartRestore \/ StartRm \/ StartList
  \/ BackupStep \/ RestoreStep \/ RmStep \/ Finish
  \/ Tick \/ WriteFile \/ Utime \/ DeleteArchive

Spec == Init /\ [][Next]_vars


\* ------------------------------------------------------------- chains alone
\* The chain resolution on any registry a state file can hold.

MaxEntries == 3
Counts == 1..Cardinality(RelPaths)
AnyEntry == [path : Dirs, timestamp : Times, file_count : Counts]
AnyRegistry == UNION { [1..n -> AnyEntry] : n \in 0..MaxEntries }

InitChain ==
  /\ clock = 1
  /\ files = [d \in Dirs |-> [f \in RelPaths |-> NoFile]]
  /\ archives = << >>
  /\ \E reg \in AnyRegistry :
       /\ stateFile = ToJson(reg)
       /\ entries = reg
  /\ pc = "running"
  /\ cmd = "create"
  /\ todo = 1
  /\ rmAll = FALSE
  /\ exit = NoExit
  /\ notFound = FALSE
  /\ op = [kind |-> "init", arg |-> "-", outcome |-> "ok"]
  /\ lastCreate = NoDir
  /\ runs = 1
  /\ envOps = 0
  /\ conc = NoConc
  /\ scan = NoScan
  /\ metaMtime = 0

\* self._get_backup_chain(bak_dir) and self._get_last_backup_ts(bak_dir) on
\* the loaded registry
ResolveChain ==
  \E d \in Dirs :
    /\ op' = [kind |-> "chain", arg |-> d,
              outcome |-> [chain |-> GetBackupChain(entries, d),
                           last |-> GetLastBackupTs(entries, d)]]
    /\ UNCHANGED << clock, files, archives, stateFile, entries, pc, cmd, todo,
                    rmAll, exit, notFound, lastCreate, runs, envOps >>
    /\ UNCHANGED aside

SpecChain == InitChain /\ [][ResolveChain]_vars


\* ------------------------------------------------------------- properties

\* the step just taken is an iteration of the named loop
Did(kind) == op'.kind = kind

\* the indices of the registry entries of directory d
IndicesOf(es, d) == { i \in DOMAIN es : es[i].path = d }

\* the largest timestamp among the entries of d, 0 if there is none
LargestTs(es, d) ==
  IF IndicesOf(es, d) = {} THEN 0
  ELSE LET i == CHOOSE i \in IndicesOf(es, d) :
                  \A j \in IndicesOf(es, d) : es[j].timestamp <= es[i].timestamp
       IN  es[i].timestamp

\* C1: idempotence of create.  When an invocation begins with create(D)
\* right after a create(D), with no file added or modified in between, this
\* second run appends no entry and writes no archive: registry, state file
\* and archives stay as the first run left them.
C1_CreateIdempotent ==
  [][ (/\ Did("create") /\ op.kind = "start"
       /\ lastCreate # NoDir /\ op'.arg = lastCreate)
        => /\ entries' = entries
           /\ stateFile' = stateFile
           /\ archives' = archives ]_vars

\* C2: incrementality of create.  create(D) selects exactly the files under D
\* modified strictly after the largest timestamp among D's entries (0 if
\* none).  If there is one, exactly one entry is appended, with the size of
\* the selection as file_count, and its archive holds exactly the selected
\* files at their relative paths; if there is none, nothing is appended and
\* no archive is written.
C2_CreateIncremental ==
  [][ (Did("create") /\ op'.outcome # "ioerror")
        => LET d == op'.arg
               S == { f \in RelPaths :
                        /\ files[d][f].exists
                        /\ files[d][f].mtime > LargestTs(entries, d) }
               new == entries'[Len(entries')]
           IN  IF S # {}
               THEN /\ Len(entries') = Len(entries) + 1
                    /\ SubSeq(entries', 1, Len(entries)) = entries
                    /\ new.path = d
                    /\ new.file_count = Cardinality(S)
                    /\ ArchiveName(new) \in DOMAIN archives'
                    /\ DOMAIN archives'[ArchiveName(new)] = S
                    /\ \A f \in S :
                         archives'[ArchiveName(new)][f] = files[d][f].content
                    /\ \A n \in DOMAIN archives \ {ArchiveName(new)} :
                         n \in DOMAIN archives' /\ archives'[n] = archives[n]
                    /\ DOMAIN archives' = DOMAIN archives \cup {ArchiveName(new)}
               ELSE /\ entries' = entries
                    /\ archives' = archives
                    /\ op'.outcome = "skip" ]_vars

\* C2's case: a second backup of a directory took one of its two files, the
\* other one being as old as the first backup
C2_Witness ==
  /\ op.kind = "create" /\ op.outcome = "ok"
  /\ Cardinality(IndicesOf(entries, op.arg)) >= 2
  /\ entries[Len(entries)].file_count = 1
  /\ \A f \in RelPaths : files[op.arg][f].exists
  /\ \E f \in RelPaths :
       files[op.arg][f].mtime = entries[Len(entries) - 1].timestamp


\* the entry an id resolves to: the first of the registry with that id
FirstWithId(es, id) ==
  es[CHOOSE i \in DOMAIN es :
       /\ IdOf(es[i]) = id
       /\ \A j \in DOMAIN es : IdOf(es[j]) = id => i <= j]

\* the entries restore(id) selects: those of the target's directory that are
\* not later than the target
Selected(es, id) ==
  { i \in DOMAIN es : /\ es[i].path = FirstWithId(es, id).path
                      /\ es[i].timestamp <= FirstWithId(es, id).timestamp }

\* the selected entries whose archive holds relative path f
Holding(es, arch, id, f) ==
  { i \in Selected(es, id) : /\ ArchiveName(es[i]) \in DOMAIN arch
                             /\ f \in DOMAIN arch[ArchiveName(es[i])] }

\* the latest of them
LatestHolding(es, arch, id, f) ==
  CHOOSE i \in Holding(es, arch, id, f) :
    \A j \in Holding(es, arch, id, f) : es[j].timestamp <= es[i].timestamp

\* C3: restore composition.  restore(id) of entry E replays the archives of
\* the entries of E's directory not later than E, oldest first: afterwards
\* every relative path held by a selected archive has the content stored in
\* the latest selected entry that holds it; later entries of the directory
\* and entries of other directories are not extracted.
C3_RestoreComposition ==
  [][ (Did("restore") /\ op'.outcome = "ok")
        => LET id == op'.arg
               D == FirstWithId(entries, id).path
           IN  /\ \A f \in RelPaths :
                    IF Holding(entries, archives, id, f) # {}
                    THEN /\ files'[D][f].exists
                         /\ files'[D][f].content =
                              archives[ArchiveName(
                                entries[LatestHolding(entries, archives, id, f)])][f]
                    ELSE files'[D][f] = files[D][f]
               /\ \A d \in Dirs \ {D} : files'[d] = files[d] ]_vars

\* C3's case: a restore replayed two archives holding the same path with
\* different contents, and the path has the later of the two
C3_Witness ==
  /\ op.kind = "restore" /\ op.outcome = "ok"
  /\ \E f \in RelPaths :
       /\ \E i, j \in Holding(entries, archives, op.arg, f) :
            /\ entries[i].timestamp < entries[j].timestamp
            /\ archives[ArchiveName(entries[i])][f]
                 # archives[ArchiveName(entries[j])][f]
       /\ files[FirstWithId(entries, op.arg).path][f].content =
            archives[ArchiveName(
              entries[LatestHolding(entries, archives, op.arg, f)])][f]

\* C4: restore is not destructive.  A file of the target directory whose
\* relative path is in none of the extracted archives is there afterwards,
\* unchanged; no restore, whatever its outcome, deletes a file.
C4_RestoreNonDestructive ==
  [][ Did("restore")
        => \A d \in Dirs, f \in RelPaths :
             files[d][f].exists
               => /\ files'[d][f].exists
                  /\ ( \/ op'.outcome = "notfound"
                       \/ d # FirstWithId(entries, op'.arg).path
                       \/ Holding(entries, archives, op'.arg, f) = {} )
                       => files'[d][f] = files[d][f] ]_vars

\* C4's case: a restore wrote one path of the directory and left alone
\* another file of it that no selected archive holds
C4_Witness ==
  /\ op.kind = "restore" /\ op.outcome = "ok"
  /\ \E f, g \in RelPaths :
       /\ Holding(entries, archives, op.arg, f) # {}
       /\ Holding(entries, archives, op.arg, g) = {}
       /\ files[FirstWithId(entries, op.arg).path][g].exists
       /\ files[FirstWithId(entries, op.arg).path][g].mtime < clock
       /\ files[FirstWithId(entries, op.arg).path][f].mtime = clock


\* every entry of the registry has its archive file
AllArchivesPresent ==
  \A i \in DOMAIN entries : ArchiveName(entries[i]) \in DOMAIN archives

\* C5: the scope of rm --all.  rm([id], all) with id resolving to an entry
\* of directory D removes every entry of D from the registry and deletes
\* their archives, and leaves every entry of another directory, the order of
\* those entries and their archive files as they were.
C5_RmAllScope ==
  [][ (Did("rm") /\ rmAll /\ op'.outcome # "notfound" /\ AllArchivesPresent)
        => LET D == FirstWithId(entries, op'.arg).path
           IN  /\ \A i \in DOMAIN entries' : entries'[i].path # D
               /\ \A i \in IndicesOf(entries, D) :
                    ArchiveName(entries[i]) \notin DOMAIN archives'
               /\ entries' = SelectSeq(entries, LAMBDA e : e.path # D)
               /\ \A i \in DOMAIN entries \ IndicesOf(entries, D) :
                    /\ ArchiveName(entries[i]) \in DOMAIN archives'
                    /\ archives'[ArchiveName(entries[i])]
                         = archives[ArchiveName(entries[i])] ]_vars

\* the entries an iteration of rm on id is to remove
RmTargets(es, id, all) ==
  IF all THEN IndicesOf(es, FirstWithId(es, id).path)
  ELSE { CHOOSE i \in DOMAIN es :
           /\ IdOf(es[i]) = id
           /\ \A j \in DOMAIN es : IdOf(es[j]) = id => i <= j }

\* C6: a missing archive is tolerated by rm, with and without --all.  When
\* the archive of an entry to remove is already missing, rm does not abort:
\* the entries to remove are dropped from the registry and the loop goes on;
\* and when the loop is over the registry is persisted.
C6_RmToleratesMissingArchive ==
  [][ /\ ( /\ Did("rm") /\ op'.outcome # "notfound"
           /\ \E i \in RmTargets(entries, op'.arg, rmAll) :
                ArchiveName(entries[i]) \notin DOMAIN archives )
        => /\ pc' = "running"
           /\ todo' = todo - 1
           /\ Len(entries') =
                Len(entries) - Cardinality(RmTargets(entries, op'.arg, rmAll))
      /\ (Did("finish") /\ cmd = "rm")
        => stateFile' = ToJson(entries) ]_vars

\* C7: an unknown id is tolerated.  In restore and rm (with and without
\* --all) an id is reported as not found exactly when no entry has it; it
\* is then skipped: registry, state file, archives and files stay as they
\* are and the loop goes on with the next id, so the other ids of the list
\* are processed from the same state as without it.
C7_UnknownIdSkipped ==
  [][ (Did("restore") \/ Did("rm"))
        => /\ op'.outcome = "notfound"
                <=> \A i \in DOMAIN entries : IdOf(entries[i]) # op'.arg
           /\ op'.outcome = "notfound"
                => /\ UNCHANGED << entries, stateFile, archives, files >>
                   /\ pc' = "running"
                   /\ todo' = todo - 1 ]_vars

\* C7's case: after an unknown id was skipped, a later id of the same list
\* was processed
C7_Witness ==
  /\ op.kind \in {"restore", "rm"}
  /\ op.outcome = "ok"
  /\ notFound
  /\ pc = "running"

\* C8: the final status reflects errors.  An invocation of restore or rm
\* ends with a nonzero status exactly when one of its ids matched no entry
\* or an I/O failure occurred, and with status 0 otherwise.
C8_StatusReflectsErrors ==
  [][ (pc = "running" /\ pc' = "idle" /\ cmd \in {"restore", "rm"})
        => (exit' # 0 <=> (notFound' \/ op'.outcome = "ioerror")) ]_vars

\* C9: batches are best effort.  When an item of a batch fails with an I/O
\* failure and other items follow it, the failure is reported and the loop
\* goes on with the next item.
C9_BatchBestEffort ==
  [][ (op'.outcome = "ioerror" /\ todo > 1)
        => (pc' = "running" /\ todo' = todo - 1) ]_vars

\* the place in the chain of entry i of directory d: after the entries of d
\* with a smaller timestamp and those with the same one that come before it
RankOf(es, d, i) ==
  Cardinality({ j \in IndicesOf(es, d) :
                  \/ es[j].timestamp < es[i].timestamp
                  \/ (es[j].timestamp = es[i].timestamp /\ j <= i) })

\* C10: chain resolution.  The chain of D holds exactly the registry entries
\* of D, non-decreasing by timestamp, those of equal timestamp in registry
\* order; the last timestamp of D is that of the chain's last element, which
\* is the largest of the chain, or 0 when the chain is empty.
C10_ChainResolution ==
  op.kind = "chain"
    => LET d == op.arg
           chain == op.outcome.chain
       IN  /\ Len(chain) = Cardinality(IndicesOf(entries, d))
           /\ \A i \in IndicesOf(entries, d) :
                chain[RankOf(entries, d, i)] = entries[i]
           /\ \A k \in 1..(Len(chain) - 1) :
                chain[k].timestamp <= chain[k + 1].timestamp
           /\ op.outcome.last = LargestTs(entries, d)
           /\ op.outcome.last =
                (IF chain = << >> THEN 0 ELSE chain[Len(chain)].timestamp)

\* C10's case: a chain resolved from a registry that is not in time order,
\* with two entries of one timestamp that differ and an entry of another
\* directory left out
C10_Witness ==
  /\ op.kind = "chain"
  /\ Len(op.outcome.chain) = 3
  /\ op.outcome.chain # SelectPath(entries, op.arg)
  /\ \E k \in 1..2 :
       /\ op.outcome.chain[k].timestamp = op.outcome.chain[k + 1].timestamp
       /\ op.outcome.chain[k] # op.outcome.chain[k + 1]

\* C11: ids are stable across a reload.  The id of an entry computed when
\* it is created equals the id computed from its record once persisted and
\* loaded again; so the id shown after a create resolves, in the restore and
\* rm of any later invocation, to that same entry (same path and timestamp)
\* for as long as the entry is in the registry.
C11_IdStableAcrossReload ==
  [][ /\ (Did("create") /\ op'.outcome = "ok")
        => LET new == entries'[Len(entries')]
               back == Loaded(stateFile')[Len(entries')]
           IN  /\ IdOf(back) = IdOf(new)
               /\ back.path = new.path
               /\ back.timestamp = new.timestamp
      /\ (Did("start") /\ op'.outcome = "ok")
        => \A i \in DOMAIN entries' :
             LET e == entries'[i]
                 j == FindIndexById(entries', IdOf(e))
             IN  /\ GetBakMeta(entries', IdOf(e)) = << e.path, e.timestamp >>
                 /\ entries'[j].path = e.path
                 /\ entries'[j].timestamp = e.timestamp ]_vars

\* ------------------------------------------------------------- two at once
\* Two invocations of the tool over one backup directory, each a process
\* with its own Metadata object and one item in its argument list.  Nothing
\* in the code locks the state file or the archives.  Every file of the
\* backed-up directories is there from the start, and readable.

InitConc ==
  /\ clock = 1
  /\ files = [d \in Dirs |->
                [f \in RelPaths |-> [exists |-> TRUE, mtime |-> 1, content |-> 1]]]
  /\ archives = << >>
  /\ stateFile = NoStateFile
  /\ entries = << >>
  /\ pc = "idle"
  /\ cmd = "none"
  /\ todo = 0
  /\ rmAll = FALSE
  /\ exit = NoExit
  /\ notFound = FALSE
  /\ op = [kind |-> "init", arg |-> "-", outcome |-> "ok"]
  /\ lastCreate = NoDir
  /\ runs = 0
  /\ envOps = 0
  /\ conc = NoConc
  /\ scan = NoScan
  /\ metaMtime = 0

\* what the steps of the two invocations leave alone
ConcFrame == UNCHANGED << clock, files, entries, pc, cmd, todo, rmAll, exit,
                          notFound, lastCreate, envOps, scan, metaMtime >>

RECURSIVE RemoveFirst(_, _)
\* the sequence without the first of its elements equal to e
RemoveFirst(s, e) ==
  IF s = << >> THEN << >>
  ELSE IF Head(s) = e THEN Tail(s) ELSE << Head(s) >> \o RemoveFirst(Tail(s), e)

\* Metadata(output_dir) in process p: its registry is what the state file
\* holds now.  conc.overlap records that another invocation was under way;
\* conc.expected is the registry as the mutations made so far, applied one
\* after the other, leave it.
ConcStart ==
  \E p \in Procs, c \in {"create", "rm"}, all \in BOOLEAN :
    /\ conc.pc[p] = "idle"
    /\ c = "create" => ~all
    /\ runs < MaxRuns
    /\ runs' = runs + 1
    /\ stateFile' = IF stateFile.exists THEN stateFile ELSE EmptyStateFile
    /\ conc' = [conc EXCEPT
                  !.pc[p] = "loaded", !.cmd[p] = c, !.all[p] = all,
                  !.mem[p] = IF stateFile.exists THEN Loaded(stateFile)
                             ELSE << >>,
                  !.overlap = @ \/ \E q \in Procs \ {p} : conc.pc[q] # "idle"]
    /\ op' = [kind |-> "start", arg |-> c, outcome |-> "ok"]
    /\ UNCHANGED archives
    /\ ConcFrame

\* the iteration of Metadata.backup in process p, on p's registry
ConcBackup ==
  \E p \in Procs, d \in Dirs :
    /\ conc.pc[p] = "loaded" /\ conc.cmd[p] = "create"
    /\ LET sel == FilterUpdatedPaths(conc.mem[p], files, d)
           me == CreateMetaEntry(d, clock, Cardinality(sel))
       IN  IF ~HasFiles(sel)
           THEN /\ conc' = [conc EXCEPT !.pc[p] = "looped"]
                /\ op' = [kind |-> "create", arg |-> d, outcome |-> "skip"]
                /\ UNCHANGED << archives, stateFile >>
           ELSE /\ archives' = WriteArchive(archives, ArchiveName(me),
                                            Compress(files, d, sel))
                /\ conc' = [conc EXCEPT
                              !.pc[p] = "looped",
                              !.mem[p] = Append(@, me),
                              !.expected = Append(@, me)]
                /\ stateFile' = ToJson(Append(conc.mem[p], me))
                /\ op' = [kind |-> "create", arg |-> d, outcome |-> "ok"]
    /\ UNCHANGED runs
    /\ ConcFrame

\* the iteration of Metadata.rm in process p, on p's registry
ConcRm ==
  \E p \in Procs, id \in Ids :
    /\ conc.pc[p] = "loaded" /\ conc.cmd[p] = "rm"
    /\ LET mem == conc.mem[p]
       IN  IF conc.all[p]
           THEN LET meta == GetBakMeta(mem, id)
                IN  IF meta = << >>
                    THEN /\ conc' = [conc EXCEPT !.pc[p] = "looped"]
                         /\ op' = [kind |-> "rm", arg |-> id,
                                   outcome |-> "notfound"]
                         /\ UNCHANGED archives
                    ELSE LET r == UnlinkChain(archives, mem, meta[1])
                         IN  /\ archives' = r.archives
                             /\ IF r.ok
                                THEN /\ conc' = [conc EXCEPT
                                       !.pc[p] = "looped",
                                       !.mem[p] = DropPath(mem, meta[1]),
                                       !.expected = DropPath(@, meta[1])]
                                     /\ op' = [kind |-> "rm", arg |-> id,
                                               outcome |-> "ok"]
                                ELSE /\ conc' = [conc EXCEPT !.pc[p] = "idle"]
                                     /\ op' = [kind |-> "rm", arg |-> id,
                                               outcome |-> "ioerror"]
           ELSE LET i == FindIndexById(mem, id)
                IN  IF i = 0
                    THEN /\ conc' = [conc EXCEPT !.pc[p] = "looped"]
                         /\ op' = [kind |-> "rm", arg |-> id,
                                   outcome |-> "notfound"]
                         /\ UNCHANGED archives
                    ELSE /\ archives' = Unlink(archives, ArchiveName(mem[i]))
                         /\ conc' = [conc EXCEPT
                                       !.pc[p] = "looped",
                                       !.mem[p] = DeleteAt(mem, i),
                                       !.expected = RemoveFirst(@, mem[i])]
                         /\ op' = [kind |-> "rm", arg |-> id,
                                   outcome |-> IF ArchiveName(mem[i])
                                                    \in DOMAIN archives
                                               THEN "ok" ELSE "missing"]
    /\ UNCHANGED << stateFile, runs >>
    /\ ConcFrame

\* the loop of process p is over: rm ends with self._to_json()
ConcFinish ==
  \E p \in Procs :
    /\ conc.pc[p] = "looped"
    /\ stateFile' = IF conc.cmd[p] = "rm" THEN ToJson(conc.mem[p])
                    ELSE stateFile
    /\ conc' = [conc EXCEPT !.pc[p] = "idle"]
    /\ op' = [kind |-> "finish", arg |-> conc.cmd[p], outcome |-> "ok"]
    /\ UNCHANGED << archives, runs >>
    /\ ConcFrame

NextConc == ConcStart \/ ConcBackup \/ ConcRm \/ ConcFinish \/ Tick

SpecConc == InitConc /\ [][NextConc]_vars

\* the elements of a sequence
Range(s) == { s[i] : i \in DOMAIN s }

\* both invocations are over and the state file lacks an entry that was
\* created and not removed, or holds one that was removed
LostUpdate ==
  /\ \A p \in Procs : conc.pc[p] = "idle"
  /\ stateFile.exists
  /\ Range(Loaded(stateFile)) # Range(conc.expected)

\* C12: lost update under concurrent invocations.  With two invocations and
\* no locking, some interleaving of load, in-memory mutation and wholesale
\* flush leaves a state file that lacks an entry one invocation created (or
\* holds one the other removed), unlike every serial order; with one
\* invocation at a time no such state is reached.  Stated: the state file
\* disagrees only after invocations that overlapped, and (C12_Witness) it
\* does disagree after some.
C12_LostUpdateOnlyWhenOverlapping == LostUpdate => conc.overlap

\* C12's case: both invocations have ended, and an entry one of them created,
\* whose archive is there, is not in the state file the other flushed
C12_Witness ==
  /\ LostUpdate
  /\ \E e \in Range(conc.expected) :
       /\ e \notin Range(Loaded(stateFile))
       /\ ArchiveName(e) \in DOMAIN archives

\* ------------------------------------------------------------- any state file
\* One invocation of the tool on whatever lies at .meta.json: nothing, a text
\* json.load rejects, or an array of up to MaxRecords records, each as
\* _to_json writes it or without one of its keys.

MaxRecords == 2
GoodRecords == { DumpRecord(ToDict(e)) : e \in AnyEntry }
Lacking(r, k) == [x \in DOMAIN r \ {k} |-> r[x]]
BadRecords == { Lacking(r, k) : r \in GoodRecords, k \in Fields }
Unparseable == [exists |-> TRUE, parses |-> FALSE, data |-> << >>]
AnyStateFile ==
  { NoStateFile, Unparseable } \cup
  { [exists |-> TRUE, parses |-> TRUE, data |-> recs] :
      recs \in UNION { [1..n -> GoodRecords \cup BadRecords] :
                         n \in 0..MaxRecords } }

InitLoad ==
  /\ clock = 1
  /\ files = [d \in Dirs |-> [f \in RelPaths |-> NoFile]]
  /\ archives = << >>
  /\ stateFile \in AnyStateFile
  /\ entries = << >>
  /\ pc = "idle"
  /\ cmd = "none"
  /\ todo = 0
  /\ rmAll = FALSE
  /\ exit = NoExit
  /\ notFound = FALSE
  /\ op = [kind |-> "init", arg |-> "-", outcome |-> "ok"]
  /\ lastCreate = NoDir
  /\ runs = MaxRuns - 1
  /\ envOps = 0
  /\ conc = NoConc
  /\ scan = NoScan
  /\ metaMtime = 0

NextLoad ==
  \/ StartCreate \/ StartRestore \/ StartRm \/ StartList
  \/ BackupStep \/ RestoreStep \/ RmStep \/ Finish

SpecLoad == InitLoad /\ [][NextLoad]_vars

\* the state file is an array of records that have every key
WellFormed(sf) ==
  /\ sf.parses
  /\ \A i \in DOMAIN sf.data : \A k \in Fields : k \in DOMAIN sf.data[i]

\* C13: the load.  With no state file, the load writes one holding an empty
\* array and the registry is empty.  With a state file that parses, the
\* registry holds exactly its records, in file order.  With a malformed one
\* (unparseable, or a record lacking a key) the load fails for the whole
\* invocation: the invocation ends with status 1, the state file is left as
\* it is, and no operation runs on a partly loaded registry.
C13_LoadBehaviour ==
  [][ /\ Did("start")
        => IF ~stateFile.exists
           THEN /\ stateFile' = [exists |-> TRUE, parses |-> TRUE,
                                 data |-> << >>]
                /\ entries' = << >>
                /\ pc' = "running"
           ELSE IF WellFormed(stateFile)
           THEN /\ Len(entries') = Len(stateFile.data)
                /\ \A i \in DOMAIN stateFile.data :
                     DumpRecord(ToDict(entries'[i])) = stateFile.data[i]
                /\ stateFile' = stateFile
                /\ pc' = "running"
           ELSE /\ pc' = "idle"
                /\ exit' = 1
                /\ entries' = << >>
                /\ stateFile' = stateFile
      /\ (Did("create") \/ Did("restore") \/ Did("rm") \/ Did("finish"))
        => /\ WellFormed(stateFile)
           /\ pc = "running" ]_vars

\* C13's case: the load has failed on a state file whose first record is
\* complete and whose second lacks a key; nothing of it is in use
C13_Witness ==
  /\ op.kind = "start" /\ op.outcome = "loaderror"
  /\ stateFile.parses
  /\ Len(stateFile.data) = 2
  /\ Fields \subseteq DOMAIN stateFile.data[1]
  /\ ~(Fields \subseteq DOMAIN stateFile.data[2])
  /\ entries = << >>
  /\ pc = "idle"
  /\ exit = 1

\* C14: persistence agreement.  create persists the whole registry right
\* after each directory that produced an entry, and rm persists once, when
\* the whole id list has been processed; so whenever an invocation of create
\* or rm ends, normally or by an error on some item, the state file holds the
\* in-memory registry as an ordered sequence of (path, timestamp,
\* file_count).
C14_PersistenceAgreement ==
  [][ /\ (Did("create") /\ op'.outcome = "ok")
        => stateFile' = ToJson(entries')
      /\ Did("rm") => stateFile' = stateFile
      /\ (pc = "running" /\ pc' = "idle" /\ cmd \in {"create", "rm"})
        => /\ stateFile'.exists
           /\ Len(Loaded(stateFile')) = Len(entries')
           /\ \A i \in DOMAIN entries' :
                /\ Loaded(stateFile')[i].path = entries'[i].path
                /\ Loaded(stateFile')[i].timestamp = entries'[i].timestamp
                /\ Loaded(stateFile')[i].file_count = entries'[i].file_count
    ]_vars

\* C15: single removal.  An iteration of rm without --all on an id that at
\* least one entry has removes exactly one entry, the first in registry
\* order with that id, and deletes only that entry's archive file; every
\* other entry keeps its fields and its place among the others, and the
\* registry is one entry shorter.
C15_SingleRemoval ==
  [][ (/\ Did("rm") /\ ~rmAll
       /\ \E i \in DOMAIN entries : IdOf(entries[i]) = op'.arg)
        => LET i == CHOOSE i \in DOMAIN entries :
                      /\ IdOf(entries[i]) = op'.arg
                      /\ \A j \in DOMAIN entries :
                           IdOf(entries[j]) = op'.arg => i <= j
               name == ArchiveName(entries[i])
           IN  /\ Len(entries') = Len(entries) - 1
               /\ \A k \in 1..(i - 1) : entries'[k] = entries[k]
               /\ \A k \in i..Len(entries') : entries'[k] = entries[k + 1]
               /\ DOMAIN archives' = DOMAIN archives \ {name}
               /\ \A n \in DOMAIN archives' : archives'[n] = archives[n]
               /\ pc' = "running" ]_vars

\* C15's case: of two different entries with the same id, rm of that id took
\* the first and left the second (the state file still holds both)
C15_Witness ==
  /\ op.kind = "rm" /\ ~rmAll /\ op.outcome = "ok"
  /\ LET old == Loaded(stateFile)
     IN  /\ Len(old) = 2 /\ Len(entries) = 1
         /\ IdOf(old[1]) = op.arg /\ IdOf(old[2]) = op.arg
         /\ old[1] # old[2]
         /\ entries[1] = old[2]

\* C16: entries are not empty.  From an empty registry, after any sequence
\* of create, restore and rm, every entry of the registry, in memory and in
\* the state file, has a file_count of at least 1: an entry is made only
\* when the selection of the backup is not empty.
C16_NonEmptyEntries ==
  /\ \A i \in DOMAIN entries : entries[i].file_count >= 1
  /\ stateFile.exists
       => \A i \in DOMAIN stateFile.data :
            Loaded(stateFile)[i].file_count >= 1

\* C16's case: in a later invocation a create has found nothing new in a
\* directory that has files and made no entry, and the registry has an
\* entry of one file
C16_Witness ==
  /\ op.kind = "create" /\ op.outcome = "skip"
  /\ runs = MaxRuns
  /\ \E i \in DOMAIN entries : entries[i].file_count = 1
  /\ \E f \in RelPaths : files[op.arg][f].exists

\* ------------------------------------------------------------- no failure
\* create and rm with every file readable, every unlink finding its file and
\* the archives touched by nothing else: no iteration ends in an I/O failure
\* and the environment only writes and re-dates files of the backed-up
\* directories.

NextClean ==
  \/ StartCreate \/ StartRm
  \/ (BackupStep /\ op'.outcome # "ioerror")
  \/ (RmStep /\ op'.outcome \notin {"ioerror", "missing"})
  \/ Finish
  \/ Tick \/ WriteFile \/ Utime

SpecClean == Init /\ [][NextClean]_vars

\* the archive names of the entries of a registry
ArchiveNames(es) == { ArchiveName(es[i]) : i \in DOMAIN es }

\* C17: registry and archives agree.  From an empty store, after any
\* sequence of completed create and rm operations, none of which met an I/O
\* failure, and with the archives touched by nothing else, the archive files
\* are exactly the archive names <directory-name>_<timestamp> of the registry
\* entries: every entry has its archive, no archive is without an entry, and
\* no two entries share one archive file.
C17_RegistryArchiveConsistency ==
  (pc = "idle" /\ exit = 0)
    => LET reg == Loaded(stateFile)
       IN  /\ DOMAIN archives = ArchiveNames(reg)
           /\ \A i, j \in DOMAIN reg :
                i # j => ArchiveName(reg[i]) # ArchiveName(reg[j])

\* ------------------------------------------------------------- inside backup
\* `create D`, one directory per invocation, in the order of the code: the
\* load, the scan (_filter_updated_paths), the reading of the clock
\* (_create_meta_entry), then the archive and the state file.  Files are
\* written meanwhile, their modification time the wall clock.  Every reading
\* of the clock and every write happens at an instant of its own, later than
\* all before it: no two times are equal here.

MaxRaceTime == 5

\* what the steps of the iteration leave alone
RaceFrame == UNCHANGED << pc, cmd, todo, rmAll, exit, notFound, lastCreate,
                          runs, envOps, conc, metaMtime >>

\* Metadata(output_dir), then files = self._filter_updated_paths(bak_dir);
\* with nothing selected the create is over
RaceScan ==
  \E d \in Dirs :
    /\ scan.phase = "idle"
    /\ entries' = IF stateFile.exists THEN Loaded(stateFile) ELSE << >>
    /\ stateFile' = IF stateFile.exists THEN stateFile ELSE EmptyStateFile
    /\ LET sel == FilterUpdatedPaths(entries', files, d)
       IN  IF ~HasFiles(sel)
           THEN /\ scan' = NoScan
                /\ op' = [kind |-> "create", arg |-> d, outcome |-> "skip"]
           ELSE /\ scan' = [phase |-> "scanned", dir |-> d, sel |-> sel,
                            ts |-> 0, since |-> {}]
                /\ op' = [kind |-> "scan", arg |-> d, outcome |-> "ok"]
    /\ UNCHANGED << clock, files, archives >>
    /\ RaceFrame

\* meta_entry = self._create_meta_entry(bak_dir, len(files)): time.time()
RaceStamp ==
  /\ scan.phase = "scanned"
  /\ clock < MaxRaceTime
  /\ clock' = clock + 1
  /\ scan' = [scan EXCEPT !.phase = "stamped", !.ts = clock + 1]
  /\ op' = [kind |-> "stamp", arg |-> scan.dir, outcome |-> "ok"]
  /\ UNCHANGED << files, archives, stateFile, entries >>
  /\ RaceFrame

\* self._compress(...); self._entries.append(meta_entry); self._to_json():
\* the selected files are read as they are now
RaceCompress ==
  /\ scan.phase = "stamped"
  /\ LET me == CreateMetaEntry(scan.dir, scan.ts, Cardinality(scan.sel))
     IN  /\ archives' = WriteArchive(archives, ArchiveName(me),
                                     Compress(files, scan.dir, scan.sel))
         /\ entries' = Append(entries, me)
         /\ stateFile' = ToJson(entries')
  /\ scan' = NoScan
  /\ op' = [kind |-> "create", arg |-> scan.dir, outcome |-> "ok"]
  /\ UNCHANGED << clock, files >>
  /\ RaceFrame

\* a file is created or rewritten, at a new instant; scan.since collects the
\* files written since the create under way began
RaceWrite ==
  \E d \in Dirs, f \in RelPaths :
    /\ clock < MaxRaceTime
    /\ clock' = clock + 1
    /\ files' = [files EXCEPT ![d][f] =
                   [exists |-> TRUE, mtime |-> clock + 1,
                    content |-> NewContent(files[d][f].content)]]
    /\ scan' = IF scan.phase = "idle" THEN scan
               ELSE [scan EXCEPT !.since = @ \cup {<< d, f >>}]
    /\ op' = [kind |-> "write", arg |-> "-", outcome |-> "ok"]
    /\ UNCHANGED << archives, stateFile, entries >>
    /\ RaceFrame

NextRace == RaceScan \/ RaceStamp \/ RaceCompress \/ RaceWrite

SpecRace == Init /\ [][NextRace]_vars

\* some archive of the chain of d holds file f as it is now
Captured(es, arch, fs, d, f) ==
  \E i \in IndicesOf(es, d) :
    /\ ArchiveName(es[i]) \in DOMAIN arch
    /\ f \in DOMAIN arch[ArchiveName(es[i])]
    /\ arch[ArchiveName(es[i])][f] = fs[d][f].content

\* C18: capture completeness.  When a file under D is created or modified,
\* its modification time the wall clock at that moment, at any point, also
\* while a create of D is under way, then once the next create of D that
\* starts after the modification has completed, some archive of D's chain
\* holds the file in its modified version.  Stated per completed create: each
\* file of D last written before this create began is then held, as it is, by
\* an archive of the chain.
C18_CaptureComplete ==
  [][ Did("create")
        => \A f \in RelPaths :
             (files[op'.arg][f].exists /\ << op'.arg, f >> \notin scan.since)
               => Captured(entries', archives', files', op'.arg, f) ]_vars

\* ------------------------------------------------------------- nested store
\* The backup directory inside a backed-up directory (`create ~` with the
\* default output ~/.backup, or -o D/.backup): .meta.json is then one of the
\* files the scan of Home finds, at relative path MetaRel, and a member of
\* the archives of Home.  The archive files lie there too; extracting one
\* brings back the bytes it has, and they are left out of the members.
\* Each invocation has one item.

Home == << "/a", "foo" >>
MetaRel == ".backup/.meta.json"

\* what the steps of an invocation leave alone here
NestedFrame == UNCHANGED << rmAll, notFound, lastCreate, envOps, conc, scan >>

\* Metadata(output_dir) and the dispatch
NestedStart ==
  \E c \in {"create", "restore", "list"} :
    /\ pc = "idle"
    /\ runs < MaxRuns
    /\ runs' = runs + 1
    /\ entries' = IF stateFile.exists THEN Loaded(stateFile) ELSE << >>
    /\ stateFile' = IF stateFile.exists THEN stateFile ELSE EmptyStateFile
    /\ metaMtime' = IF stateFile.exists THEN metaMtime ELSE clock
    /\ pc' = "running"
    /\ cmd' = c
    /\ todo' = IF c = "list" THEN 0 ELSE 1
    /\ exit' = NoExit
    /\ op' = [kind |-> "start", arg |-> c, outcome |-> "ok"]
    /\ UNCHANGED << clock, files, archives >>
    /\ NestedFrame

\* the iteration of Metadata.backup: under Home the scan finds .meta.json
\* too, and selects it when it was written after the last backup
NestedBackup ==
  \E d \in Dirs :
    /\ pc = "running" /\ cmd = "create" /\ todo = 1
    /\ LET withMeta == d = Home /\ metaMtime > GetLastBackupTs(entries, d)
           sel == FilterUpdatedPaths(entries, files, d)
                    \cup (IF withMeta THEN {MetaRel} ELSE {})
           me == CreateMetaEntry(d, clock, Cardinality(sel))
       IN  IF ~HasFiles(sel)
           THEN /\ op' = [kind |-> "create", arg |-> d, outcome |-> "skip"]
                /\ UNCHANGED << archives, entries, stateFile, metaMtime >>
           ELSE /\ archives' =
                     WriteArchive(archives, ArchiveName(me),
                       [f \in sel |-> IF f = MetaRel THEN stateFile.data
                                      ELSE files[d][f].content])
                /\ entries' = Append(entries, me)
                /\ stateFile' = ToJson(entries')
                /\ metaMtime' = clock
                /\ op' = [kind |-> "create", arg |-> d, outcome |-> "ok"]
    /\ todo' = 0
    /\ UNCHANGED << clock, files, pc, cmd, exit, runs >>
    /\ NestedFrame

RECURSIVE ExtractMeta(_, _, _, _)
\* what extracting the chain leaves at .meta.json, as [file, mtime]: each
\* archive of Home that holds MetaRel writes it, until an archive is missing
ExtractMeta(meta, arch, chain, now) ==
  IF chain = << >> THEN meta
  ELSE LET e == Head(chain)
       IN  IF ArchiveName(e) \notin DOMAIN arch THEN meta
           ELSE ExtractMeta(
                  IF e.path = Home /\ MetaRel \in DOMAIN arch[ArchiveName(e)]
                  THEN [file |-> [exists |-> TRUE, parses |-> TRUE,
                                  data |-> arch[ArchiveName(e)][MetaRel]],
                        mtime |-> now]
                  ELSE meta,
                  arch, Tail(chain), now)

\* the iteration of Metadata.restore
NestedRestore ==
  \E id \in Ids :
    /\ pc = "running" /\ cmd = "restore" /\ todo = 1
    /\ LET meta == GetBakMeta(entries, id)
       IN  IF meta = << >>
           THEN /\ op' = [kind |-> "restore", arg |-> id,
                          outcome |-> "notfound"]
                /\ UNCHANGED << files, stateFile, metaMtime, pc, exit >>
           ELSE LET chain == RestoreChain(entries, meta)
                    r == ExtractChain(files, archives, chain, clock)
                    m == ExtractMeta([file |-> stateFile, mtime |-> metaMtime],
                                     archives, chain, clock)
                IN  /\ files' = r.files
                    /\ stateFile' = m.file
                    /\ metaMtime' = m.mtime
                    /\ IF r.ok
                       THEN /\ op' = [kind |-> "restore", arg |-> id,
                                      outcome |-> "ok"]
                            /\ UNCHANGED << pc, exit >>
                       ELSE /\ op' = [kind |-> "restore", arg |-> id,
                                      outcome |-> "ioerror"]
                            /\ pc' = "idle"
                            /\ exit' = 1
    /\ todo' = 0
    /\ UNCHANGED << clock, archives, entries, cmd, runs >>
    /\ NestedFrame

\* the loop is over (list prints its table); the process ends with status 0
NestedFinish ==
  /\ pc = "running" /\ todo = 0
  /\ pc' = "idle"
  /\ exit' = 0
  /\ op' = [kind |-> "finish", arg |-> cmd, outcome |-> "ok"]
  /\ UNCHANGED << clock, files, archives, stateFile, entries, cmd, todo, runs,
                  metaMtime >>
  /\ NestedFrame

NextNested ==
  \/ NestedStart \/ NestedBackup \/ NestedRestore \/ NestedFinish
  \/ Tick \/ WriteFile

SpecNested == Init /\ [][NextNested]_vars

\* C19: restore and list only read.  After the load, no step of an
\* invocation of restore or list, for any id, changes the in-memory
\* registry, the persisted state file or an archive file; only create and rm
\* change them.
C19_RestoreAndListReadOnly ==
  [][ ((Did("restore") \/ Did("finish")) /\ cmd \in {"restore", "list"})
        => /\ entries' = entries
           /\ stateFile' = stateFile
           /\ archives' = archives ]_vars

====
